---------------------------- MODULE Spec2Model ----------------------------
(* A model of .github/workflows/link_fix.py: the link annotator, the       *)
(* internal-link checker, the report writer and the ignore-list normalizer. *)
(*                                                                          *)
(* A Python str is a sequence of tokens.  A token is one character, or a    *)
(* run of characters the program only ever handles as a whole ("http",      *)
(* "utm_source", ".png", a percent escape such as "%2F").  No token can be  *)
(* produced by gluing other tokens of the alphabet together, so substring,  *)
(* prefix and suffix tests on token sequences agree with the tests on the   *)
(* strings they stand for.                                                  *)
EXTENDS Integers, Sequences, FiniteSets, TLC

VARIABLES
    url, cleaned, pcU,          \* strip_chatgpt_utm: argument, result, position
    cfile, clink, cands, pcC,   \* candidates_for_quarto_source: arguments, result
    fs,                         \* the working tree: file path -> text
    fs0,                        \* the working tree as the run found it
    pc,                         \* main(): the pass in progress
    todo,                       \* content files the pass in progress has yet to visit
    updated,                    \* files append_target_blank_to_http_links returned True for
    broken,                     \* main()'s dict: file path -> broken (link, candidates)
    lpath, lbefore, lret,       \* last sort_lycheeignore_file call: path, text found, result
    lwrote, lagain,             \* ... whether it wrote, whether path was sorted before
    lseen, nruns                \* paths sorted so far, calls so far

varsU == <<url, cleaned, pcU>>
varsC == <<cfile, clink, cands, pcC>>
varsL == <<lpath, lbefore, lret, lwrote, lagain, lseen, nruns>>
varsM == <<fs, fs0, pc, todo, updated, broken>>
vars == <<varsU, varsC, varsM, varsL>>

--------------------------------------------------------------------------
(* str methods *)

Range(f) == { f[i] : i \in DOMAIN f }

startswith(s, p) ==
    Len(p) <= Len(s) /\ SubSeq(s, 1, Len(p)) = p

endswith(s, p) ==
    Len(p) <= Len(s) /\ SubSeq(s, Len(s) - Len(p) + 1, Len(s)) = p

\* Python's "p in s" for strings
Contains(s, p) ==
    \E i \in 1..(Len(s) - Len(p) + 1) : SubSeq(s, i, i + Len(p) - 1) = p

\* s.find(c, from) for a one-token c, 1-based; 0 when absent
Find(s, c, from) ==
    IF \E i \in from..Len(s) : s[i] = c
    THEN CHOOSE i \in from..Len(s) : s[i] = c /\ \A j \in from..(i - 1) : s[j] # c
    ELSE 0

\* s.split(c, 1)[0]
BeforeFirst(s, c) ==
    LET i == Find(s, c, 1) IN IF i = 0 THEN s ELSE SubSeq(s, 1, i - 1)

\* s.split(c, 1)[1], or <<>> when c is absent
AfterFirst(s, c) ==
    LET i == Find(s, c, 1) IN IF i = 0 THEN <<>> ELSE SubSeq(s, i + 1, Len(s))

\* s.split(c)
RECURSIVE Split(_, _)
Split(s, c) ==
    LET i == Find(s, c, 1)
    IN  IF i = 0 THEN <<s>>
        ELSE <<SubSeq(s, 1, i - 1)>> \o Split(SubSeq(s, i + 1, Len(s)), c)

\* sep.join(parts)
RECURSIVE Join(_, _)
Join(parts, sep) ==
    IF Len(parts) = 0 THEN <<>>
    ELSE IF Len(parts) = 1 THEN parts[1]
    ELSE parts[1] \o sep \o Join(Tail(parts), sep)

Whitespace == {" ", "\n"}

RECURSIVE lstrip(_)
lstrip(s) ==
    IF Len(s) > 0 /\ s[1] \in Whitespace THEN lstrip(Tail(s)) ELSE s

RECURSIVE rstrip(_)
rstrip(s) ==
    IF Len(s) > 0 /\ s[Len(s)] \in Whitespace
    THEN rstrip(SubSeq(s, 1, Len(s) - 1)) ELSE s

strip(s) == lstrip(rstrip(s))

\* str.lower(), token by token
LowerTok(t) ==
    CASE t = "A" -> "a"
      [] t = "B" -> "b"
      [] t = ".PNG" -> ".png"
      [] OTHER -> t

lower(s) == [i \in 1..Len(s) |-> LowerTok(s[i])]

--------------------------------------------------------------------------
(* urllib.parse, as strip_chatgpt_utm uses it *)

\* unquote(x.replace("+", " ")): percent escapes are decoded as UTF-8 with
\* errors="replace", so an escape that is not valid UTF-8 (the Latin-1
\* "%E9") becomes U+FFFD.
UnquoteTok(t) ==
    CASE t = "+" -> " "
      [] t = "%20" -> " "
      [] t = "%2F" -> "/"
      [] t = "%3D" -> "="
      [] t = "%E9" -> "U+FFFD"
      [] t = "%EF%BF%BD" -> "U+FFFD"
      [] t = "img%2Eshields.io" -> "img.shields.io"
      [] OTHER -> t

unquote_plus(s) == [i \in 1..Len(s) |-> UnquoteTok(s[i])]

\* quote_plus(x, safe=""): letters, digits and "_.-~" stay, a space becomes
\* "+", everything else is percent-encoded from its UTF-8 bytes.
QuoteTok(t) ==
    CASE t = " " -> "+"
      [] t = "/" -> "%2F"
      [] t = "=" -> "%3D"
      [] t = "?" -> "%3F"
      [] t = "U+FFFD" -> "%EF%BF%BD"
      [] OTHER -> t

quote_plus(s) == [i \in 1..Len(s) |-> QuoteTok(s[i])]

\* urlsplit(url): the fragment is cut at the first "#", then the query at the
\* first "?"; scheme, netloc and path are kept together as "base".
urlsplit(u) ==
    LET nofrag == BeforeFirst(u, "#")
    IN  [base     |-> BeforeFirst(nofrag, "?"),
         query    |-> AfterFirst(nofrag, "?"),
         fragment |-> AfterFirst(u, "#")]

\* parse_qsl(qs, keep_blank_values=True): split on "&", skip empty fields,
\* split each field on its first "=", decode name and value.
RECURSIVE ParseFields(_)
ParseFields(fields) ==
    IF Len(fields) = 0 THEN <<>>
    ELSE LET f == fields[1]
         IN  IF Len(f) = 0 THEN ParseFields(Tail(fields))
             ELSE << <<unquote_plus(BeforeFirst(f, "=")),
                       unquote_plus(AfterFirst(f, "="))>> >>
                  \o ParseFields(Tail(fields))

parse_qsl(qs) == IF Len(qs) = 0 THEN <<>> ELSE ParseFields(Split(qs, "&"))

\* urlencode(pairs, doseq=True): quote_plus(k) "=" quote_plus(v), joined by "&"
urlencode(pairs) ==
    Join([i \in 1..Len(pairs) |->
            quote_plus(pairs[i][1]) \o <<"=">> \o quote_plus(pairs[i][2])],
         <<"&">>)

\* urlunsplit: "?" query and "#" fragment are written only when non-empty
urlunsplit(base, query, fragment) ==
    base \o (IF Len(query) > 0 THEN <<"?">> \o query ELSE <<>>)
         \o (IF Len(fragment) > 0 THEN <<"#">> \o fragment ELSE <<>>)

UTM_PARAM == <<"utm_source", "=", "chatgpt.com">>

IsUtmPair(p) == p[1] = <<"utm_source">> /\ p[2] = <<"chatgpt.com">>

strip_chatgpt_utm(u) ==
    IF ~Contains(u, UTM_PARAM) THEN u
    ELSE LET parts == urlsplit(u)
             query_pairs == parse_qsl(parts.query)
             filtered == SelectSeq(query_pairs, LAMBDA p : ~IsUtmPair(p))
             new_query == urlencode(filtered)
         IN  urlunsplit(parts.base, new_query, parts.fragment)

--------------------------------------------------------------------------
(* Inputs of strip_chatgpt_utm *)

MaxParams == 3

ParamSamples ==
    { UTM_PARAM,
      <<"a", "=", "1">>,
      <<"a">>,
      <<"q", "=", "caf", "%E9">>,
      <<"b", "=", "x", "/", "y">>,
      <<"b", "=", "%2F", "+">>,
      <<"x", "utm_source", "=", "chatgpt.com">>,
      <<>> }

BaseSamples == { <<"http", "://", "x", "/">>, <<"page">> }

FragmentSamples == { <<>>, <<"f">>, UTM_PARAM }

RECURSIVE SeqsUpTo(_, _)
SeqsUpTo(S, n) ==
    IF n = 0 THEN { <<>> }
    ELSE LET shorter == SeqsUpTo(S, n - 1)
         IN  shorter \cup { Append(q, x) : q \in shorter, x \in S }

UrlSamples ==
    { b \o (IF Len(ps) > 0 THEN <<"?">> \o Join(ps, <<"&">>) ELSE <<>>)
        \o (IF Len(f) > 0 THEN <<"#">> \o f ELSE <<>>) :
      b \in BaseSamples, ps \in SeqsUpTo(ParamSamples, MaxParams),
      f \in FragmentSamples }

InitU == url \in UrlSamples /\ cleaned = <<>> /\ pcU = "call"

StripUtm ==
    /\ pcU = "call"
    /\ cleaned' = strip_chatgpt_utm(url)
    /\ pcU' = "return"
    /\ UNCHANGED url

\* C3: a destination that contains utm_source=chatgpt.com is rewritten to one
\* without that parameter whose other query parameters (keys, values, order)
\* and fragment are those of the original; any other destination is returned
\* unchanged.  Keys and values are read as the bytes the escapes stand for.
BytesOfTok(t) ==
    CASE t = "+" -> " "
      [] t = "%20" -> " "
      [] t = "%2F" -> "/"
      [] t = "%3D" -> "="
      [] t = "%3F" -> "?"
      [] t = "%E9" -> "0xE9"
      [] t = "%EF%BF%BD" -> "U+FFFD"
      [] t = "img%2Eshields.io" -> "img.shields.io"
      [] OTHER -> t

BytesOf(s) == [i \in 1..Len(s) |-> BytesOfTok(s[i])]

QueryOf(u) == AfterFirst(BeforeFirst(u, "#"), "?")

FragmentOf(u) == AfterFirst(u, "#")

ParamsOf(u) ==
    LET fields == SelectSeq(Split(QueryOf(u), "&"), LAMBDA f : Len(f) > 0)
    IN  [i \in 1..Len(fields) |->
            <<BytesOf(BeforeFirst(fields[i], "=")),
              BytesOf(AfterFirst(fields[i], "="))>>]

C3_StripPreserves ==
    pcU = "return" =>
        IF Contains(url, UTM_PARAM)
        THEN /\ \A i \in DOMAIN ParamsOf(cleaned) : ~IsUtmPair(ParamsOf(cleaned)[i])
             /\ ParamsOf(cleaned)
                  = SelectSeq(ParamsOf(url), LAMBDA p : ~IsUtmPair(p))
             /\ FragmentOf(cleaned) = FragmentOf(url)
        ELSE cleaned = url

\* the same statement for destinations whose escapes are all valid UTF-8
C3_StripPreservesUtf8 ==
    (pcU = "return" /\ ~Contains(url, <<"%E9">>)) =>
        IF Contains(url, UTM_PARAM)
        THEN /\ \A i \in DOMAIN ParamsOf(cleaned) : ~IsUtmPair(ParamsOf(cleaned)[i])
             /\ ParamsOf(cleaned)
                  = SelectSeq(ParamsOf(url), LAMBDA p : ~IsUtmPair(p))
             /\ FragmentOf(cleaned) = FragmentOf(url)
        ELSE cleaned = url


--------------------------------------------------------------------------
(* pathlib: a path is a sequence of segments, a segment a token sequence *)

repo_root == << <<"repo">> >>

\* the segments of a relative path string: empty and "." segments vanish
PathSegments(s) ==
    SelectSeq(Split(s, "/"), LAMBDA seg : Len(seg) > 0 /\ seg # <<".">>)

\* base / s
PathJoin(base, s) == base \o PathSegments(s)

\* Path(str(base) + ext)
PathAddSuffix(base, ext) ==
    SubSeq(base, 1, Len(base) - 1) \o <<Append(base[Len(base)], ext)>>

\* file_path.parent
Parent(path) == SubSeq(path, 1, Len(path) - 1)

RECURSIVE lstrip_slash(_)
lstrip_slash(s) ==
    IF Len(s) > 0 /\ s[1] = "/" THEN lstrip_slash(Tail(s)) ELSE s

RECURSIVE rstrip_slash(_)
rstrip_slash(s) ==
    IF Len(s) > 0 /\ s[Len(s)] = "/"
    THEN rstrip_slash(SubSeq(s, 1, Len(s) - 1)) ELSE s

IndexQmd == <<"index", ".qmd">>
IndexMd == <<"index", ".md">>

candidates_for_quarto_source(file_path, link, root) ==
    LET clean0 == strip(BeforeFirst(BeforeFirst(link, "#"), "?"))
        clean1 == IF endswith(clean0, <<".html">>)
                  THEN SubSeq(clean0, 1, Len(clean0) - 1) ELSE clean0
        is_dir == endswith(clean1, <<"/">>)
        clean2 == IF is_dir THEN rstrip_slash(clean1) ELSE clean1
        base   == IF startswith(clean2, <<"/">>)
                  THEN PathJoin(root, lstrip_slash(clean2))
                  ELSE PathJoin(Parent(file_path), clean2)
    IN  IF is_dir
        THEN << Append(base, IndexQmd), Append(base, IndexMd) >>
        ELSE << PathAddSuffix(base, ".qmd"), PathAddSuffix(base, ".md"),
                Append(base, IndexQmd), Append(base, IndexMd) >>

--------------------------------------------------------------------------
(* Inputs of candidates_for_quarto_source *)

PageMd == << <<"repo">>, <<"docs">>, <<"guide">>, <<"page", ".md">> >>
IntroQmd == << <<"repo">>, <<"docs">>, <<"intro", ".qmd">> >>

LinkSamples ==
    { pre \o body \o suf \o tail :
        pre  \in { <<>>, <<"/">>, <<"..", "/">> },
        body \in { <<>>, <<"other">>, <<"foo", "/", "bar">> },
        suf  \in { <<>>, <<"/">>, <<".html">> },
        tail \in { <<>>, <<"#", "top">>, <<"?", "v">> } }

InitC ==
    /\ cfile \in {PageMd, IntroQmd}
    /\ clink \in LinkSamples
    /\ cands = <<>>
    /\ pcC = "call"

Candidates ==
    /\ pcC = "call"
    /\ cands' = candidates_for_quarto_source(cfile, clink, repo_root)
    /\ pcC' = "return"
    /\ UNCHANGED <<cfile, clink>>

\* C5: a destination stripped of fragment, query and a trailing .html is
\* resolved against the content root when the destination starts with "/",
\* against the referencing file's directory otherwise; a trailing-slash
\* destination yields exactly base/index.qmd and base/index.md, any other
\* exactly base.qmd, base.md, base/index.qmd and base/index.md.
ClaimedClean(link) ==
    LET c == BeforeFirst(BeforeFirst(link, "#"), "?")
    IN  IF endswith(c, <<".html">>) THEN SubSeq(c, 1, Len(c) - 1) ELSE c

ClaimedBase(file_path, link) ==
    (IF startswith(link, <<"/">>) THEN repo_root ELSE Parent(file_path))
        \o PathSegments(ClaimedClean(link))

ClaimedCandidates(file_path, link) ==
    LET base == ClaimedBase(file_path, link)
    IN  IF endswith(ClaimedClean(link), <<"/">>)
        THEN { Append(base, IndexQmd), Append(base, IndexMd) }
        ELSE { PathAddSuffix(base, ".qmd"), PathAddSuffix(base, ".md"),
               Append(base, IndexQmd), Append(base, IndexMd) }

C5_Candidates ==
    pcC = "return" => Range(cands) = ClaimedCandidates(cfile, clink)

\* the same statement away from the site-root destination itself
C5_CandidatesBelowRoot ==
    (pcC = "return" /\ rstrip_slash(ClaimedClean(clink)) # <<>>)
        => Range(cands) = ClaimedCandidates(cfile, clink)

C5_Witness == pcC = "return" /\ clink = <<"/">>

--------------------------------------------------------------------------
(* The two link patterns *)

\* A match of
\*   (?<!\!)\[(?P<text>[^\]]+)\]\((?P<url>http[^\)]+)\)(?P<attrs>\{[^}]*\})?
\* (http = TRUE, MARKDOWN_HTTP_LINK_PATTERN) or of
\*   (?<!\!)\[(?P<text>[^\]]+)\]\((?P<dest>[^)]+)\)
\* (http = FALSE, MARKDOWN_LINK_PATTERN) starting at position i of s.
\* attrs = <<>> stands for a group that did not take part (None).
MatchAt(s, i, http) ==
    LET j == Find(s, "]", i + 1)
        k == IF j = 0 THEN 0 ELSE Find(s, ")", j + 2)
        m == IF http /\ k > 0 /\ k + 1 <= Len(s) /\ s[k + 1] = "{"
             THEN Find(s, "}", k + 2) ELSE 0
    IN  [ok    |-> /\ i <= Len(s) /\ s[i] = "["
                   /\ (i = 1 \/ s[i - 1] # "!")
                   /\ j >= i + 2
                   /\ j + 1 <= Len(s) /\ s[j + 1] = "("
                   /\ k >= j + 3
                   /\ http => (s[j + 2] = "http" /\ k >= j + 4),
         text  |-> IF j >= i + 2 THEN SubSeq(s, i + 1, j - 1) ELSE <<>>,
         dest  |-> IF k >= j + 3 THEN SubSeq(s, j + 2, k - 1) ELSE <<>>,
         attrs |-> IF m > 0 THEN SubSeq(s, k + 1, m) ELSE <<>>,
         end   |-> IF m > 0 THEN m + 1 ELSE k + 1]

\* pattern.search(s, i): the leftmost match that starts at or after
\* position i (ok = FALSE when there is none)
SearchFrom(s, i, http) ==
    LET starts == { p \in i..Len(s) : s[p] = "[" /\ MatchAt(s, p, http).ok }
    IN  IF starts = {} THEN [ok |-> FALSE]
        ELSE LET p == CHOOSE x \in starts : \A y \in starts : x <= y
             IN  MatchAt(s, p, http) @@ [start |-> p]

MARKDOWN_HTTP_LINK_PATTERN(s, i) == SearchFrom(s, i, TRUE)

MARKDOWN_LINK_PATTERN(s, i) == SearchFrom(s, i, FALSE)

--------------------------------------------------------------------------
(* Link annotator *)

SKIP_URL_SUBSTRINGS == { <<"img.shields.io">> }

ASSET_SUFFIXES == { ".png", ".svg", ".jpg", ".jpeg", ".gif", ".webp", ".pdf" }

strip_fragment_and_query(u) ==
    strip(BeforeFirst(BeforeFirst(u, "#"), "?"))

is_asset_link(u) ==
    LET clean == lower(strip_fragment_and_query(u))
    IN  \E suf \in ASSET_SUFFIXES : endswith(clean, <<suf>>)

\* a variant that forgets the asset test
should_skip_shields_only(u) ==
    \E sub \in SKIP_URL_SUBSTRINGS : Contains(u, sub)

should_skip_external(u) ==
    (\E sub \in SKIP_URL_SUBSTRINGS : Contains(u, sub)) \/ is_asset_link(u)

\* the position of the first non-whitespace token of s at or after i
RECURSIVE SkipSpace(_, _)
SkipSpace(s, i) ==
    IF i <= Len(s) /\ s[i] \in Whitespace THEN SkipSpace(s, i + 1) ELSE i

\* a variant that knows the unquoted form only: re.search(r'target\s*=\s*_blank')
attrs_have_unquoted_target_blank(attrs) ==
    \E p \in 1..Len(attrs) :
        /\ attrs[p] = "target"
        /\ LET q == SkipSpace(attrs, p + 1)
               r == SkipSpace(attrs, q + 1)
           IN  /\ q <= Len(attrs) /\ attrs[q] = "="
               /\ r <= Len(attrs) /\ attrs[r] = "_blank"

\* re.search(r'target\s*=\s*("_blank"|_blank)', attrs)
attrs_already_have_target_blank(attrs) ==
    \E p \in 1..Len(attrs) :
        /\ attrs[p] = "target"
        /\ LET q == SkipSpace(attrs, p + 1)
               r == SkipSpace(attrs, q + 1)
           IN  /\ q <= Len(attrs) /\ attrs[q] = "="
               /\ \/ r <= Len(attrs) /\ attrs[r] = "_blank"
                  \/ /\ r + 2 <= Len(attrs)
                     /\ SubSeq(attrs, r, r + 2) = <<"\"", "_blank", "\"">>

normalize_to_brace_attrs(existing_attrs) ==
    LET outer == strip(existing_attrs)
        inner == strip(SubSeq(outer, 2, Len(outer) - 1))
    IN  IF startswith(inner, <<":">>) THEN strip(Tail(inner)) ELSE inner

\* a variant that tests the destination before it is cleaned and returns the
\* link as it stands when that destination is to be skipped
add_target_blank_skip_first(match) ==
    LET u == strip_chatgpt_utm(match.dest)
        link == <<"[">> \o match.text \o <<"]", "(">> \o u \o <<")">>
        existing_attrs == match.attrs
    IN  IF should_skip_external(u) \/ Contains(match.dest, UTM_PARAM)
        THEN link \o existing_attrs
        ELSE IF Len(existing_attrs) > 0
        THEN IF attrs_already_have_target_blank(existing_attrs)
             THEN link \o existing_attrs
             ELSE LET inner == normalize_to_brace_attrs(existing_attrs)
                  IN  IF Len(inner) > 0
                      THEN link \o <<"{", " ">> \o inner
                                \o <<" ", "target", "=", "_blank", " ", "}">>
                      ELSE link \o <<"{", " ", "target", "=", "_blank", " ", "}">>
        ELSE link \o <<"{", "target", "=", "_blank", "}">>

add_target_blank(match) ==
    LET u == strip_chatgpt_utm(match.dest)
        link == <<"[">> \o match.text \o <<"]", "(">> \o u \o <<")">>
        existing_attrs == match.attrs
    IN  IF should_skip_external(u) THEN link \o existing_attrs
        ELSE IF Len(existing_attrs) > 0
        THEN IF attrs_already_have_target_blank(existing_attrs)
             THEN link \o existing_attrs
             ELSE LET inner == normalize_to_brace_attrs(existing_attrs)
                  IN  IF Len(inner) > 0
                      THEN link \o <<"{", " ">> \o inner
                                \o <<" ", "target", "=", "_blank", " ", "}">>
                      ELSE link \o <<"{", " ", "target", "=", "_blank", " ", "}">>
        ELSE link \o <<"{", "target", "=", "_blank", "}">>

\* MARKDOWN_HTTP_LINK_PATTERN.sub(add_target_blank, content), from position i:
\* the text between matches is copied, each match is replaced
RECURSIVE HttpLinkSub(_, _)
HttpLinkSub(content, i) ==
    LET match == MARKDOWN_HTTP_LINK_PATTERN(content, i)
    IN  IF match.ok
        THEN SubSeq(content, i, match.start - 1)
                 \o add_target_blank(match) \o HttpLinkSub(content, match.end)
        ELSE SubSeq(content, i, Len(content))

\* the text append_target_blank_to_http_links leaves in the file
AnnotatedText(content) == HttpLinkSub(content, 1)

\* for p in root.rglob("*"): files with suffix .md/.qmd below the top level
iter_content_files(tree, root) ==
    { p \in DOMAIN tree :
        /\ startswith(p, root)
        /\ p[Len(p)][Len(p[Len(p)])] \in {".md", ".qmd"}
        /\ Len(p) - Len(root) # 1 }

--------------------------------------------------------------------------
(* The working tree *)

\* path.write_text(text)
WriteFile(tree, path, text) ==
    [q \in DOMAIN tree \cup {path} |-> IF q = path THEN text ELSE tree[q]]

\* path.unlink()
Unlink(tree, path) == [q \in DOMAIN tree \ {path} |-> tree[q]]

\* d is a directory of the tree ("/" itself included)
IsDir(tree, d) ==
    \E f \in DOMAIN tree : Len(f) > Len(d) /\ SubSeq(f, 1, Len(d)) = d

\* os.stat walks the path segment by segment: ".." steps up from a directory
\* that exists, a name must be an entry of the directory reached so far
RECURSIVE Walk(_, _, _)
Walk(tree, cur, rest) ==
    IF Len(rest) = 0 THEN TRUE
    ELSE IF ~IsDir(tree, cur) THEN FALSE
    ELSE IF rest[1] = <<"..">>
         THEN Walk(tree, IF Len(cur) = 0 THEN cur ELSE Parent(cur), Tail(rest))
         ELSE LET nxt == Append(cur, rest[1])
              IN  (nxt \in DOMAIN tree \/ IsDir(tree, nxt))
                  /\ Walk(tree, nxt, Tail(rest))

\* p.exists()
exists(tree, path) == Walk(tree, <<>>, path)

--------------------------------------------------------------------------
(* Internal link checker *)

is_templated_link(dest) ==
    LET d == strip(dest)
    IN  startswith(d, <<"{{<">>) \/ startswith(d, <<"{{%">>)

NonFilePrefixes ==
    { <<"http", "://">>, <<"http", "s", "://">>, <<"mailto:">>, <<"#">>, <<"tel:">> }

ExplicitExceptions == { <<"{", "nc", "[", "k", "]", "}">> }

\* the body of the loop of check_internal_links for one match: the (link,
\* candidates) pair it appends, if any
\* a variant that wants every candidate on disk: all(p.exists() for p in cands)
CheckedLinkAllExist(tree, file_path, root, match) ==
    LET link == strip_chatgpt_utm(strip(match.dest))
        cs == candidates_for_quarto_source(file_path, link, root)
    IN  IF is_templated_link(link) THEN <<>>
        ELSE IF \E pre \in NonFilePrefixes : startswith(link, pre) THEN <<>>
        ELSE IF link \in ExplicitExceptions THEN <<>>
        ELSE IF \E sub \in SKIP_URL_SUBSTRINGS : Contains(link, sub) THEN <<>>
        ELSE IF is_asset_link(link) THEN <<>>
        ELSE IF Contains(link, <<"_news">>) THEN <<>>
        ELSE IF ~\A i \in DOMAIN cs : exists(tree, cs[i])
             THEN << <<link, cs>> >>
             ELSE <<>>

CheckedLink(tree, file_path, root, match) ==
    LET link == strip_chatgpt_utm(strip(match.dest))
        cs == candidates_for_quarto_source(file_path, link, root)
    IN  IF is_templated_link(link) THEN <<>>
        ELSE IF \E pre \in NonFilePrefixes : startswith(link, pre) THEN <<>>
        ELSE IF link \in ExplicitExceptions THEN <<>>
        ELSE IF \E sub \in SKIP_URL_SUBSTRINGS : Contains(link, sub) THEN <<>>
        ELSE IF is_asset_link(link) THEN <<>>
        ELSE IF Contains(link, <<"_news">>) THEN <<>>
        ELSE IF ~\E i \in DOMAIN cs : exists(tree, cs[i])
             THEN << <<link, cs>> >>
             ELSE <<>>

\* for m in MARKDOWN_LINK_PATTERN.finditer(content), from position i
RECURSIVE CheckFrom(_, _, _, _, _)
CheckFrom(tree, file_path, root, content, i) ==
    LET match == MARKDOWN_LINK_PATTERN(content, i)
    IN  IF match.ok
        THEN CheckedLink(tree, file_path, root, match)
                 \o CheckFrom(tree, file_path, root, content, match.end)
        ELSE <<>>

check_internal_links(tree, file_path, root) ==
    CheckFrom(tree, file_path, root, tree[file_path], 1)

--------------------------------------------------------------------------
(* Ordering of strings *)

\* the tokens that take part in a sort, in the order Python gives the strings
\* they stand for
TokOrder ==
    << "\n", " ", "#", ".md", ".qmd", "/", "A", "B", "a", "b", "c",
       "docs", "guide", "index", "intro", "other", "page", "repo" >>

TokRank(t) == CHOOSE i \in 1..Len(TokOrder) : TokOrder[i] = t

\* a < b for strings
RECURSIVE StrLess(_, _)
StrLess(a, b) ==
    IF Len(b) = 0 THEN FALSE
    ELSE IF Len(a) = 0 THEN TRUE
    ELSE IF a[1] = b[1] THEN StrLess(Tail(a), Tail(b))
    ELSE TokRank(a[1]) < TokRank(b[1])

\* sorted(xs, key=Key): a stable insertion sort of <<key, value>> pairs
RECURSIVE InsertSorted(_, _)
InsertSorted(sorted, x) ==
    IF Len(sorted) = 0 THEN <<x>>
    ELSE IF StrLess(x[1], sorted[1][1])
         THEN <<x>> \o sorted
         ELSE <<sorted[1]>> \o InsertSorted(Tail(sorted), x)

RECURSIVE SortPairs(_)
SortPairs(pairs) ==
    IF Len(pairs) = 0 THEN <<>>
    ELSE InsertSorted(SortPairs(SubSeq(pairs, 1, Len(pairs) - 1)),
                      pairs[Len(pairs)])

SortedBy(xs, Key(_)) ==
    LET sorted == SortPairs([i \in 1..Len(xs) |-> <<Key(xs[i]), xs[i]>>])
    IN  [i \in 1..Len(sorted) |-> sorted[i][2]]

\* str(path) / path.as_posix()
PathStr(path) == Join(path, <<"/">>)

SetToSeq(S) == CHOOSE q \in [1..Cardinality(S) -> S] : Range(q) = S

--------------------------------------------------------------------------
(* Report writer *)

report_path == Append(repo_root, <<"broken_links", ".md">>)

server == <<"https://github.com">>

\* "<fence>" stands for three backticks, "<tick>" for one
RECURSIVE ReportItems(_)
ReportItems(items) ==
    IF Len(items) = 0 THEN <<>>
    ELSE <<"\n", "<fence>sh", "\n">> \o items[1][1] \o <<"\n", "<fence>", "\n">>
             \o ReportItems(Tail(items))

ReportGroup(src_file, items, root, ghrepo) ==
    LET rel == PathStr(SubSeq(src_file, Len(root) + 1, Len(src_file)))
        edit_url == server \o <<"/">> \o ghrepo \o <<"/edit/main/">> \o rel
    IN  (IF Len(ghrepo) > 0
         THEN <<"## In [">> \o rel \o <<"](">> \o edit_url \o <<")", "\n", "\n">>
         ELSE <<"## In <tick>">> \o rel \o <<"<tick>", "\n", "\n">>)
        \o <<"The following links are broken:">>
        \o ReportItems(items)
        \o <<"\n">>

RECURSIVE ReportText(_, _, _, _)
ReportText(files, dict, root, ghrepo) ==
    IF Len(files) = 0 THEN <<>>
    ELSE ReportGroup(files[1], dict[files[1]], root, ghrepo)
             \o ReportText(Tail(files), dict, root, ghrepo)

\* a variant that leaves an earlier report where it is
write_report_never_unlinks(tree, dict, root, ghrepo) ==
    IF DOMAIN dict = {}
    THEN tree
    ELSE WriteFile(tree, report_path,
                   ReportText(SortedBy(SetToSeq(DOMAIN dict), PathStr),
                              dict, root, ghrepo))

\* the tree write_broken_links_report(broken, repo_root) leaves
write_broken_links_report(tree, dict, root, ghrepo) ==
    IF DOMAIN dict = {}
    THEN IF report_path \in DOMAIN tree THEN Unlink(tree, report_path) ELSE tree
    ELSE WriteFile(tree, report_path,
                   ReportText(SortedBy(SetToSeq(DOMAIN dict), PathStr),
                              dict, root, ghrepo))

--------------------------------------------------------------------------
(* Ignore-list normalizer *)

\* text.splitlines()
splitlines(text) ==
    LET parts == Split(text, "\n")
    IN  IF Len(parts[Len(parts)]) = 0
        THEN SubSeq(parts, 1, Len(parts) - 1) ELSE parts

\* the comments list: every line whose stripped form starts with "#", rstripped
CommentLines(lines) ==
    LET cls == SelectSeq(lines, LAMBDA l : startswith(strip(l), <<"#">>))
    IN  [i \in 1..Len(cls) |-> rstrip(cls[i])]

\* the entries list: every other non-blank line, stripped
EntryLines(lines) ==
    LET els == SelectSeq(lines, LAMBDA l :
                   Len(strip(l)) > 0 /\ ~startswith(strip(l), <<"#">>))
    IN  [i \in 1..Len(els) |-> strip(els[i])]

\* a variant that dedupes on the entry as written
RECURSIVE DedupeExact(_, _)
DedupeExact(entries, seen_lower) ==
    IF Len(entries) = 0 THEN <<>>
    ELSE IF entries[1] \in seen_lower THEN DedupeExact(Tail(entries), seen_lower)
         ELSE <<entries[1]>> \o DedupeExact(Tail(entries), seen_lower \cup {entries[1]})

\* dedupe on e.lower(), keeping the first seen
RECURSIVE Dedupe(_, _)
Dedupe(entries, seen_lower) ==
    IF Len(entries) = 0 THEN <<>>
    ELSE LET key == lower(entries[1])
         IN  IF key \in seen_lower THEN Dedupe(Tail(entries), seen_lower)
             ELSE <<entries[1]>> \o Dedupe(Tail(entries), seen_lower \cup {key})

\* out_text of sort_lycheeignore_file for a file that holds the text before
SortedIgnoreText(before) ==
    LET original == splitlines(before)
        comments == CommentLines(original)
        deduped == Dedupe(EntryLines(original), {})
        deduped_sorted == SortedBy(deduped, lower)
        out_lines == (IF Len(comments) > 0 THEN Append(comments, <<>>) ELSE <<>>)
                         \o deduped_sorted
    IN  Append(rstrip(Join(out_lines, <<"\n">>)), "\n")

\* a variant that writes without comparing with the text on disk
sort_lycheeignore_file_always_writes(tree, path) ==
    IF path \notin DOMAIN tree THEN [tree |-> tree, ret |-> FALSE, wrote |-> FALSE]
    ELSE [tree |-> WriteFile(tree, path, SortedIgnoreText(tree[path])),
          ret |-> TRUE, wrote |-> TRUE]

\* sort_lycheeignore_file(path): the tree it leaves and what it returns
sort_lycheeignore_file(tree, path) ==
    IF path \notin DOMAIN tree THEN [tree |-> tree, ret |-> FALSE, wrote |-> FALSE]
    ELSE LET out_text == SortedIgnoreText(tree[path])
         IN  IF tree[path] # out_text
             THEN [tree |-> WriteFile(tree, path, out_text),
                   ret |-> TRUE, wrote |-> TRUE]
             ELSE [tree |-> tree, ret |-> FALSE, wrote |-> FALSE]

DotLycheeignore == Append(repo_root, <<".lycheeignore">>)
Lycheeignore == Append(repo_root, <<"lycheeignore">>)

--------------------------------------------------------------------------
(* main(): one action per call it makes *)

\* for fp in iter_content_files(root): append_target_blank_to_http_links(fp)
\* rglob yields the files in directory order, which the program does not
\* control: any file not yet visited may come next.
AnnotateFile(fp) ==
    /\ pc = "annotate"
    /\ fp \in todo
    /\ LET content == fs[fp]
           new_text == AnnotatedText(content)
       IN  /\ fs' = IF new_text # content THEN WriteFile(fs, fp, new_text) ELSE fs
           /\ updated' = IF new_text # content THEN updated \cup {fp} ELSE updated
    /\ IF todo = {fp}
       THEN pc' = "check" /\ todo' = iter_content_files(fs', repo_root)
       ELSE pc' = pc /\ todo' = todo \ {fp}
    /\ UNCHANGED <<fs0, broken>>

\* for fp in iter_content_files(root): b = check_internal_links(fp, root);
\* if b: broken[fp] = b
CheckFile(fp) ==
    /\ pc = "check"
    /\ fp \in todo
    /\ LET b == check_internal_links(fs, fp, repo_root)
       IN  broken' = IF Len(b) > 0
                     THEN [q \in DOMAIN broken \cup {fp} |->
                              IF q = fp THEN b ELSE broken[q]]
                     ELSE broken
    /\ IF todo = {fp}
       THEN pc' = "report" /\ todo' = {}
       ELSE pc' = pc /\ todo' = todo \ {fp}
    /\ UNCHANGED <<fs, fs0, updated>>

\* os.getenv("GITHUB_REPOSITORY"): <<>> when the variable is unset
GithubRepos == { <<>>, <<"fs-ise/handbook">> }

\* write_broken_links_report(broken, repo_root=root)
WriteReport ==
    /\ pc = "report"
    /\ \E repo \in GithubRepos :
          fs' = write_broken_links_report(fs, broken, repo_root, repo)
    /\ pc' = "sort1"
    /\ UNCHANGED <<fs0, todo, updated, broken>>

\* one call of sort_lycheeignore_file(path)
SortCall(path) ==
    LET r == sort_lycheeignore_file(fs, path)
    IN  /\ fs' = r.tree
        /\ lpath' = path
        /\ lbefore' = IF path \in DOMAIN fs THEN <<fs[path]>> ELSE <<>>
        /\ lret' = r.ret
        /\ lwrote' = r.wrote
        /\ lagain' = (path \in lseen)
        /\ lseen' = lseen \cup {path}
        /\ nruns' = nruns + 1

\* sort_lycheeignore_file(root / ".lycheeignore")
SortDotLycheeignore ==
    /\ pc = "sort1"
    /\ SortCall(DotLycheeignore)
    /\ pc' = "sort2"
    /\ UNCHANGED <<fs0, todo, updated, broken>>

\* sort_lycheeignore_file(root / "lycheeignore")
SortLycheeignore ==
    /\ pc = "sort2"
    /\ SortCall(Lycheeignore)
    /\ pc' = "done"
    /\ UNCHANGED <<fs0, todo, updated, broken>>

--------------------------------------------------------------------------
(* Working trees the run may find *)

MaxPieces == 2

\* The files are sequences of well-formed pieces: an inline link with at most
\* one complete brace block, or an image, each followed by a space.
Link(dest, attrs) == <<"[", "t", "]", "(">> \o dest \o <<")">> \o attrs \o <<" ">>

Image(dest) == <<"!", "[", "t", "]", "(">> \o dest \o <<")", " ">>

PagePieces ==
    { Link(<<"..", "/", "other">>, <<>>),
      Link(<<"fig", ".png">>, <<>>),
      Link(<<"fig", ".PNG", "#", "f">>, <<"{", ".c", "}">>),
      Link(<<"http", "s", "://", "x", "/", "a", ".png", "?", "v">>, <<"{", ".c", "}">>),
      Link(<<"http", "://", "x">>, <<>>),
      Link(<<"_news", "/", "x">>, <<>>),
      Link(<<"missing", "/">>, <<>>),
      Link(<<"/">>, <<>>),
      Link(<<"page", ".html", "?", "utm_source", "=", "chatgpt.com">>, <<>>) }

RECURSIVE Flatten(_)
Flatten(ss) == IF Len(ss) = 0 THEN <<>> ELSE ss[1] \o Flatten(Tail(ss))

PageTexts == { Flatten(ps) : ps \in SeqsUpTo(PagePieces, MaxPieces) }

IntroText ==
      Flatten(<< Link(<<"mailto:", "a">>, <<>>),
                 Link(<<"{{<", " ", "var", " ", ">}}">>, <<>>),
                 Link(<<"{", "nc", "[", "k", "]", "}">>, <<>>),
                 Link(<<"{{%", " ", "var", " ", "%}}", "/", "x">>, <<>>),
                 Image(<<"nowhere">>),
                 Link(<<"other">>, <<>>),
                 Link(<<"gone", ".html", "#", "s">>, <<>>),
                 Link(<<"tel:", "1">>, <<>>),
                 Link(<<"http", "s", "://", "img.shields.io", "/", "b">>, <<>>),
                 Link(<<" ", "/", "lost", " ">>, <<>>) >>)

ReadmeText == Link(<<"http", "://", "x">>, <<>>) \o Link(<<"nowhere">>, <<>>)

ReadmeMd == Append(repo_root, <<"README", ".md">>)
OtherMd == << <<"repo">>, <<"docs">>, <<"other", ".md">> >>
GuideIndexQmd == << <<"repo">>, <<"docs">>, <<"guide">>, <<"index", ".qmd">> >>

\* the text of docs/intro.qmd and the other source files on disk
Scenarios ==
    { <<IntroText, {}>>,
      <<IntroText, {OtherMd, GuideIndexQmd}>>,
      <<<<"plain", " ", "text">>, {OtherMd, GuideIndexQmd}>> }

IgnoreText == <<"b", "\n", "#", "\n", "a", "\n", "B">>

\* f and g on disjoint domains, together
Merge(f, g) ==
    [q \in DOMAIN f \cup DOMAIN g |-> IF q \in DOMAIN f THEN f[q] ELSE g[q]]

IdleL ==
    /\ lpath = <<>> /\ lbefore = <<>> /\ lret = FALSE /\ lwrote = FALSE
    /\ lagain = FALSE /\ lseen = {} /\ nruns = 0

InitM ==
    /\ \E page \in PageTexts, sc \in Scenarios, prior \in BOOLEAN :
          fs = Merge([q \in {PageMd, IntroQmd, ReadmeMd, DotLycheeignore} \cup sc[2] |->
                         IF q = PageMd THEN page
                         ELSE IF q = IntroQmd THEN sc[1]
                         ELSE IF q = ReadmeMd THEN ReadmeText
                         ELSE IF q = DotLycheeignore THEN IgnoreText
                         ELSE <<>>],
                     [q \in (IF prior THEN {report_path} ELSE {}) |->
                         <<"old", " ", "report">>])
    /\ fs0 = fs
    /\ pc = "annotate"
    /\ todo = iter_content_files(fs, repo_root)
    /\ updated = {}
    /\ broken = [q \in {} |-> <<>>]

--------------------------------------------------------------------------
(* The annotator alone, on one content file *)

MaxAnnotPieces == 2

AnnotDests ==
    { <<"http", "s", "://", "x", "/", "p", "?", "a", "=", "1", "&",
        "utm_source", "=", "chatgpt.com">>,
      <<"http", "s", "://", "x", "/", "a", ".png", "?", "v">>,
      <<"http", "s", "://", "img.shields.io", "/", "b">>,
      <<"http", "://", "x", "/", "?", "q", "=", "img%2Eshields.io", "&",
        "utm_source", "=", "chatgpt.com">>,
      <<"http", "foo">>,
      <<"..", "/", "other">> }

AnnotAttrs ==
    { <<>>,
      <<"{", ".c", "}">>,
      <<"{", "target", "=", "_blank", "}">>,
      <<"{", ".c", " ", "target", "=", "\"", "_blank", "\"", "}">>,
      <<"{", ":", " ", ".c", "}">>,
      <<"{", "}">> }

AnnotPieces ==
    { Link(d, a) : d \in AnnotDests, a \in AnnotAttrs }
        \cup { Image(<<"http", "://", "x">>) }

AnnotTexts == { Flatten(ps) : ps \in SeqsUpTo(AnnotPieces, MaxAnnotPieces) }

InitA ==
    /\ \E page \in AnnotTexts :
          fs = [q \in {PageMd, ReadmeMd} |-> IF q = PageMd THEN page ELSE ReadmeText]
    /\ fs0 = fs
    /\ pc = "annotate"
    /\ todo = iter_content_files(fs, repo_root)
    /\ updated = {}
    /\ broken = [q \in {} |-> <<>>]

NextA == \E fp \in todo : AnnotateFile(fp) /\ UNCHANGED <<varsL, varsU, varsC>>

--------------------------------------------------------------------------
(* The normalizer alone, called again and again on one ignore file *)

MaxIgnoreLen == 5

MaxRuns == 2

IgnoreAlphabet == { "#", "a", "A", "b", " ", "\n" }

IgnoreTexts == SeqsUpTo(IgnoreAlphabet, MaxIgnoreLen)

InitL ==
    /\ \/ fs = [q \in {} |-> <<>>]
       \/ \E text \in IgnoreTexts : fs = [q \in {DotLycheeignore} |-> text]
    /\ fs0 = fs
    /\ pc = "lychee"
    /\ todo = {}
    /\ updated = {}
    /\ broken = [q \in {} |-> <<>>]

SortAgain ==
    /\ pc = "lychee"
    /\ nruns < MaxRuns
    /\ SortCall(DotLycheeignore)
    /\ UNCHANGED <<fs0, pc, todo, updated, broken>>

NextL == SortAgain /\ UNCHANGED <<varsU, varsC>>

Next ==
    \/ \E fp \in todo : AnnotateFile(fp) /\ UNCHANGED <<varsL, varsU, varsC>>
    \/ \E fp \in todo : CheckFile(fp) /\ UNCHANGED <<varsL, varsU, varsC>>
    \/ WriteReport /\ UNCHANGED <<varsL, varsU, varsC>>
    \/ SortDotLycheeignore /\ UNCHANGED <<varsU, varsC>>
    \/ SortLycheeignore /\ UNCHANGED <<varsU, varsC>>

--------------------------------------------------------------------------
(* What the claims speak of *)

\* the brace blocks that follow position k - 1 of s, one after the other
RECURSIVE BlocksAt(_, _)
BlocksAt(s, k) ==
    IF k <= Len(s) /\ s[k] = "{" /\ Find(s, "}", k + 1) > 0
    THEN <<SubSeq(s, k, Find(s, "}", k + 1))>> \o BlocksAt(s, Find(s, "}", k + 1) + 1)
    ELSE <<>>

\* the inline links of a text in document order, each with its display text,
\* its destination and the attribute blocks that follow it
RECURSIVE LinksFrom(_, _)
LinksFrom(s, i) ==
    LET m == SearchFrom(s, i, FALSE)
    IN  IF m.ok
        THEN << [text |-> m.text, dest |-> m.dest, blocks |-> BlocksAt(s, m.end)] >>
                 \o LinksFrom(s, m.end)
        ELSE <<>>

InlineLinks(s) == LinksFrom(s, 1)

IsExternal(d) ==
    startswith(d, <<"http", "://">>) \/ startswith(d, <<"http", "s", "://">>)

PathPart(d) == BeforeFirst(BeforeFirst(d, "#"), "?")

\* the destination, query and fragment aside, ends with a listed suffix
AssetSuffixed(d) == \E suf \in ASSET_SUFFIXES : endswith(PathPart(d), <<suf>>)

\* the same in any letter case and with blanks around it
LooksLikeAsset(d) ==
    \E suf \in ASSET_SUFFIXES : endswith(lower(strip(PathPart(d))), <<suf>>)

SkipListed(d) == Contains(d, <<"img.shields.io">>)

HasMarker(block) ==
    \/ Contains(block, <<"target", "=", "_blank">>)
    \/ Contains(block, <<"target", "=", "\"", "_blank", "\"">>)

Annotated == pc = "check"

OldLinks == InlineLinks(fs0[PageMd])
NewLinks == InlineLinks(fs[PageMd])

C2_MarkedBlockKept ==
    Annotated =>
        /\ Len(NewLinks) = Len(OldLinks)
        /\ \A i \in DOMAIN OldLinks :
              ( /\ IsExternal(OldLinks[i].dest)
                /\ Len(OldLinks[i].blocks) > 0
                /\ HasMarker(OldLinks[i].blocks[1]) )
              => NewLinks[i].blocks = OldLinks[i].blocks

C2_Witness ==
    /\ Annotated
    /\ PageMd \in updated
    /\ \E i \in DOMAIN OldLinks :
          /\ IsExternal(OldLinks[i].dest)
          /\ ~LooksLikeAsset(OldLinks[i].dest) /\ ~SkipListed(OldLinks[i].dest)
          /\ Len(OldLinks[i].blocks) = 1
          /\ Contains(OldLinks[i].blocks[1], <<"target", "=", "\"", "_blank", "\"">>)

\* C10: the annotator leaves every link whose destination does not start
\* with http:// or https:// byte for byte as it was.
C10_InternalLinksUntouched ==
    Annotated =>
        /\ Len(NewLinks) = Len(OldLinks)
        /\ \A i \in DOMAIN OldLinks :
              ~IsExternal(OldLinks[i].dest) => NewLinks[i] = OldLinks[i]

\* the same statement for destinations that do not start with "http" at all
C10_NonHttpLinksUntouched ==
    Annotated =>
        /\ Len(NewLinks) = Len(OldLinks)
        /\ \A i \in DOMAIN OldLinks :
              ~startswith(OldLinks[i].dest, <<"http">>) => NewLinks[i] = OldLinks[i]

ContentFiles == iter_content_files(fs0, repo_root)

OldLinksOf(f) == InlineLinks(fs0[f])
NewLinksOf(f) == InlineLinks(fs[f])

\* the links the checker recorded for f, in the order it recorded them
BrokenLinksOf(f) ==
    IF f \in DOMAIN broken THEN [k \in DOMAIN broken[f] |-> broken[f][k][1]] ELSE <<>>

AllChecked == pc = "report"

\* C4: a link whose destination, query and fragment aside, ends with a listed
\* asset suffix keeps the attribute blocks it had, none added and none
\* altered, and no link with such a destination is in the broken result.
C4_AssetsLeftAlone ==
    AllChecked =>
        \A f \in ContentFiles :
            /\ Len(NewLinksOf(f)) = Len(OldLinksOf(f))
            /\ \A i \in DOMAIN OldLinksOf(f) :
                  AssetSuffixed(OldLinksOf(f)[i].dest)
                  => NewLinksOf(f)[i].blocks = OldLinksOf(f)[i].blocks
            /\ \A k \in DOMAIN BrokenLinksOf(f) : ~AssetSuffixed(BrokenLinksOf(f)[k])

C4_Witness ==
    /\ AllChecked
    /\ PageMd \notin DOMAIN broken
    /\ \E i, j \in DOMAIN OldLinksOf(PageMd) :
          /\ OldLinksOf(PageMd)[i].dest = <<"fig", ".png">>
          /\ IsExternal(OldLinksOf(PageMd)[j].dest)
          /\ AssetSuffixed(OldLinksOf(PageMd)[j].dest)
          /\ Len(OldLinksOf(PageMd)[j].blocks) = 1

\* the destination as the checker reads it: trimmed, tracking parameter removed
CheckedDest(d) == strip_chatgpt_utm(strip(d))

\* a template expression: the destination opens with a shortcode
IsTemplate(d) == startswith(d, <<"{{<">>) \/ startswith(d, <<"{{%">>)

IsAnchorMailtoTel(d) ==
    startswith(d, <<"#">>) \/ startswith(d, <<"mailto:">>) \/ startswith(d, <<"tel:">>)

\* the two destinations the checker exempts by name
Exempt(e, d) ==
    IF e = "nc" THEN d = <<"{", "nc", "[", "k", "]", "}">>
    ELSE Contains(d, <<"_news">>)

\* a destination the checker has to resolve when es are the exemptions
Eligible(es, d) ==
    /\ ~IsExternal(d) /\ ~IsTemplate(d) /\ ~IsAnchorMailtoTel(d)
    /\ \A e \in es : ~Exempt(e, d)
    /\ ~LooksLikeAsset(d) /\ ~SkipListed(d)

NoCandidateExists(f, d) ==
    LET cs == candidates_for_quarto_source(f, d, repo_root)
    IN  \A i \in DOMAIN cs : ~exists(fs, cs[i])

\* the eligible links of f without an existing candidate, in document order
RECURSIVE UnresolvedOf(_, _, _)
UnresolvedOf(es, f, links) ==
    IF Len(links) = 0 THEN <<>>
    ELSE LET d == CheckedDest(links[1].dest)
         IN  (IF Eligible(es, d) /\ NoCandidateExists(f, d) THEN <<d>> ELSE <<>>)
                 \o UnresolvedOf(es, f, Tail(links))

\* C6 as stated, with one explicit exception, whichever of the two it is: the
\* links reported for a file are, in document order, exactly the links that
\* are not external, template, anchor, mailto, tel, the exception, asset or
\* skip-listed and have no existing candidate.
C6_OneException ==
    AllChecked =>
        \E e \in {"nc", "news"} :
            \A f \in ContentFiles : BrokenLinksOf(f) = UnresolvedOf({e}, f, NewLinksOf(f))

\* C6 amended: the same with both exemptions of the checker, the destination
\* {nc[k]} and every destination that contains _news.
C6_BrokenIffNoCandidate ==
    AllChecked =>
        \A f \in ContentFiles :
            BrokenLinksOf(f) = UnresolvedOf({"nc", "news"}, f, NewLinksOf(f))

C6_Witness ==
    /\ AllChecked
    /\ OtherMd \in DOMAIN fs
    /\ Len(BrokenLinksOf(IntroQmd)) = 2
    /\ \E i, j, k \in DOMAIN NewLinksOf(PageMd) :
          /\ NewLinksOf(PageMd)[i].dest = <<"..", "/", "other">>
          /\ NewLinksOf(PageMd)[j].dest = <<"missing", "/">>
          /\ BrokenLinksOf(PageMd) = << <<"missing", "/">> >>

\* C7: once the report writer has run, the report file exists exactly when
\* the broken-link result is not empty.
C7_ReportIffBroken ==
    pc \in {"sort1", "sort2", "done"} =>
        (report_path \in DOMAIN fs <=> DOMAIN broken # {})

C7_Witness ==
    /\ pc = "sort1"
    /\ report_path \in DOMAIN fs0
    /\ DOMAIN broken = {}
    /\ report_path \notin DOMAIN fs

Called == nruns > 0

\* C8: a call of the normalizer on a file an earlier call has normalized
\* writes nothing, leaves the text as it is and returns False; a call on a
\* missing file writes nothing, creates nothing and returns False.
C8_Idempotent ==
    Called =>
        /\ lagain /\ lbefore # <<>>
               => ~lwrote /\ ~lret /\ lpath \in DOMAIN fs /\ fs[lpath] = lbefore[1]
        /\ lbefore = <<>> => ~lwrote /\ ~lret /\ lpath \notin DOMAIN fs

C8_Witness ==
    /\ Called /\ lagain /\ ~lwrote /\ ~lret
    /\ lpath \in DOMAIN fs /\ fs[lpath] # fs0[lpath]

\* the comment lines and the entries of the text the call found
FoundComments == CommentLines(splitlines(lbefore[1]))
FoundEntries == EntryLines(splitlines(lbefore[1]))

\* the lines of the text the call left
OutLines == splitlines(fs[lpath])

\* out holds one entry for each entry of entries, letter case aside, in the
\* casing seen first, in ascending order, letter case aside
DedupedAndSorted(out, entries) ==
    /\ { lower(out[i]) : i \in DOMAIN out } = { lower(entries[i]) : i \in DOMAIN entries }
    /\ \A i \in DOMAIN out :
          \E k \in DOMAIN entries :
              /\ out[i] = entries[k]
              /\ \A j \in 1..(k - 1) : lower(entries[j]) # lower(out[i])
    /\ \A i, j \in DOMAIN out : i < j => StrLess(lower(out[i]), lower(out[j]))

\* the lines are the comments, then the separator lines, then the entries
LaidOut(lines, comments, separator, entries) ==
    LET n == Len(comments) + Len(separator)
    IN  /\ Len(lines) >= n
        /\ SubSeq(lines, 1, n) = comments \o separator
        /\ DedupedAndSorted(SubSeq(lines, n + 1, Len(lines)), entries)

--------------------------------------------------------------------------
NextU == StripUtm /\ UNCHANGED <<varsC, varsM, varsL>>
NextC == Candidates /\ UNCHANGED <<varsU, varsM, varsL>>

IdleU == url = <<>> /\ cleaned = <<>> /\ pcU = "idle"
IdleC == cfile = <<>> /\ clink = <<>> /\ cands = <<>> /\ pcC = "idle"
IdleM ==
    /\ fs = [q \in {} |-> <<>>] /\ fs0 = fs /\ pc = "idle"
    /\ todo = {} /\ updated = {} /\ broken = [q \in {} |-> <<>>]

Init == InitM /\ IdleU /\ IdleC /\ IdleL
InitAnnot == InitA /\ IdleU /\ IdleC /\ IdleL
InitLychee == InitL /\ IdleU /\ IdleC /\ IdleL
InitUtm == InitU /\ IdleC /\ IdleM /\ IdleL
InitCand == InitC /\ IdleU /\ IdleM /\ IdleL

Spec == Init /\ [][Next]_vars
SpecAnnot == InitAnnot /\ [][NextA]_vars
SpecLychee == InitLychee /\ [][NextL]_vars
SpecUtm == InitUtm /\ [][NextU]_vars
SpecCand == InitCand /\ [][NextC]_vars

==========================================================================
